---------------------------- MODULE Spec2Model ----------------------------
(***************************************************************************)
(* Model of album_art_fix.py: main, process_images, handle_audio_files,    *)
(* extract_art_mutagen, process_cover_image and clear_temp_directory.      *)
(*                                                                         *)
(* The program is one sequential process.  Every library call that can     *)
(* raise is a step of its own, so that a KeyboardInterrupt can arrive      *)
(* between any two of them.  What a library call finds in a file's bytes   *)
(* (tags, embedded picture, decodable image data) is chosen when the call  *)
(* is made: every file is read at most once per run.                       *)
(*                                                                         *)
(* Not modelled: the per-format branches of extract_art_mutagen (their     *)
(* result is a picture with a mime type, or none), a directory os.walk or  *)
(* os.listdir cannot read, and a shutil.move that fails half way (a failed *)
(* move leaves both files as they were).                                   *)
(***************************************************************************)
EXTENDS Integers, Sequences, FiniteSets, TLC

\* ---------------------------------------------------------------- bounds
MaxFolders == 5          \* folders of the library tree
MaxFiles == 2            \* entries of one folder's directory listing

\* ------------------------------------------------------- program constants
SUPPORTED_EXTENSIONS == {".mp3", ".flac", ".opus", ".ogg", ".m4a"}
COVER_FILENAME == <<"cover", ".jpg">>
RESERVED_DIR == ".rockbox"

\* ------------------------------------------------------------ the library
\* Folder 1 is root_dir; 2 and 3 are its subdirectories; every later folder f
\* is a subdirectory of f - 2.
Folders == 1..MaxFolders
Parent(f) == IF f = 1 THEN 0 ELSE IF f <= 3 THEN 1 ELSE f - 2
\* The directory's own name: 3 is root/.rockbox, 4 is root/d2/.rockbox.
DirName(f) == IF f \in {3, 4} THEN RESERVED_DIR ELSE "d"
Children(f) == {g \in Folders : Parent(g) = f}

RECURSIVE UnderReserved(_)
\* f is below root_dir and a directory named .rockbox lies on its path
UnderReserved(f) ==
    IF f <= 1 THEN FALSE
    ELSE DirName(f) = RESERVED_DIR \/ UnderReserved(Parent(f))
Walkable == {f \in Folders : ~UnderReserved(f)}

\* File names <<stem, extension>> that a folder's listing may hold.  ".MP3"
\* does not end in a supported extension: str.endswith is case-sensitive.
FileNames == {<<"a", ".mp3">>, <<"a", ".flac">>, <<"b", ".ogg">>, <<"b", ".MP3">>}
Mimes == {"image/png", "image/webp"}

\* A file's content: what kind of bytes it holds and where they come from.
\* kind: absent (no file), empty (zero bytes), raw (bytes never normalized),
\* norm (a 300x300 RGB JPEG written by process_cover_image).
NoFile == [kind |-> "absent", dir |-> 0, file |-> <<"", "">>]
PreCover(f, k) == [kind |-> k, dir |-> f, file |-> COVER_FILENAME]

\* ------------------------------------------------------- pure functions
Stem(name) == name[1]
\* f.endswith(SUPPORTED_EXTENSIONS)
IsAudio(name) == name[2] \in SUPPORTED_EXTENSIONS
\* the listing filtered in listing order
AudioFiles(l) == SelectSeq(l, IsAudio)

\* extensions.get(mime_type, "jpeg")
MimeExt(m) ==
    CASE m = "image/jpeg" -> "jpeg"
      [] m = "image/png" -> "png"
      [] m = "image/gif" -> "gif"
      [] OTHER -> "jpeg"

RECURSIVE RemoveFirst(_, _)
\* list.remove: drops the first directory of dirs whose name is n
RemoveFirst(dirs, n) ==
    IF dirs = <<>> THEN <<>>
    ELSE IF DirName(Head(dirs)) = n THEN Tail(dirs)
    ELSE <<Head(dirs)>> \o RemoveFirst(Tail(dirs), n)
\* Mutant of Prune: the reserved name is not removed from dirs.
PruneNothing(dirs) == dirs
\* if ".rockbox" in dirs: dirs.remove(".rockbox")
Prune(dirs) == RemoveFirst(dirs, RESERVED_DIR)

\* What Image.open / convert / resize / save can do with a file's bytes:
\* ok, UnidentifiedImageError (no image format recognized), or another
\* exception (OSError "image file is truncated", a broken stream, ...).
DecodeOutcomes(c) ==
    CASE c.kind = "norm" -> {"ok"}
      [] c.kind = "empty" -> {"unidentified"}
      [] OTHER -> {"ok", "unidentified", "oserror"}
\* The file at image_path after process_cover_image ran with outcome r.
process_cover_image(c, r) == IF r = "ok" THEN [c EXCEPT !.kind = "norm"] ELSE c
\* process_cover_image catches UnidentifiedImageError and nothing else.
Raises(r) == r = "oserror"

Restrict(fn, S) == [x \in S |-> fn[x]]

RECURSIVE SeqsUpTo(_, _)
\* sequences without repetition over S of length at most n
SeqsUpTo(S, n) ==
    IF n = 0 THEN {<<>>}
    ELSE LET shorter == SeqsUpTo(S, n - 1)
         IN shorter \cup {Append(s, x) : s \in shorter, x \in S}
Distinct(s) == \A i, j \in 1..Len(s) : i # j => s[i] # s[j]
Listings(S, n) == {s \in SeqsUpTo(S, n) : Distinct(s)}

VARIABLES
    pc,                 \* position in the program
    outcome,            \* how process_images ended
    pending,            \* os.walk: directories still to be yielded
    root,               \* the folder the loop body works on
    processed_folders, folders_processed,
    cover,              \* cover.jpg of each folder
    staging_exists,     \* the staging directory exists
    staged,             \* its files: staged name -> content
    listing,            \* os.listdir(directory)
    audio_files,        \* handle_audio_files: the filtered list
    idx,                \* position of the for loop in audio_files
    mime_type,          \* extract_art_mutagen: mime of the selected picture
    temp_art_path,      \* extract_art_mutagen: staged name of the picture
    cleared,            \* what clear_temp_directory did
    \* history, read by the properties only
    cover0,             \* cover as the run found it
    visits,             \* how often the loop body started on a folder
    attempts,           \* this folder's extract_art_mutagen calls and results
    log,                \* this folder's stage / normalize / move events
    fs_errors           \* the operations that raised a filesystem error

vars == <<pc, outcome, pending, root, processed_folders, folders_processed,
          cover, staging_exists, staged, listing, audio_files, idx, mime_type,
          temp_art_path, cleared, cover0, visits, attempts, log, fs_errors>>

walker == <<pending, root, processed_folders, folders_processed>>
\* the frames of handle_audio_files and extract_art_mutagen, with their history
locals == <<listing, audio_files, idx, mime_type, temp_art_path, attempts, log>>
disk == <<cover, staging_exists, staged>>

NoPath == <<"", "">>
\* What the run may find as a folder's cover.jpg.  The walker never looks
\* into a reserved area: there every other folder holds a cover.
InitialKinds(f) ==
    IF UnderReserved(f) THEN (IF f % 2 = 1 THEN {"raw"} ELSE {"absent"})
    ELSE {"absent", "empty", "raw"}

Init ==
    /\ pc = "walk"
    /\ outcome = "running"
    /\ pending = <<1>>
    /\ root = 0
    /\ processed_folders = {}
    /\ folders_processed = 0
    /\ \E k \in [Folders -> {"absent", "empty", "raw"}] :
          /\ \A f \in Folders : k[f] \in InitialKinds(f)
          /\ cover = [f \in Folders |->
                        IF k[f] = "absent" THEN NoFile ELSE PreCover(f, k[f])]
    /\ staging_exists = FALSE
    /\ staged = <<>>
    /\ listing = <<>>
    /\ audio_files = <<>>
    /\ idx = 0
    /\ mime_type = ""
    /\ temp_art_path = NoPath
    /\ cleared = "not_run"
    /\ cover0 = cover
    /\ visits = [f \in Folders |-> 0]
    /\ attempts = <<>>
    /\ log = <<>>
    /\ fs_errors = {}

\* The frames are left: by a return, or by an exception on its way to main.
DropLocals ==
    /\ listing' = <<>>
    /\ audio_files' = <<>>
    /\ idx' = 0
    /\ mime_type' = ""
    /\ temp_art_path' = NoPath
    /\ attempts' = <<>>
    /\ log' = <<>>

\* An exception leaves process_images and reaches main's finally.
Propagate(o) ==
    /\ outcome' = o
    /\ pc' = "cleanup"
    /\ DropLocals

\* --------------------------------------------------------- process_images
\* for root, dirs, _ in os.walk(root_dir): the next directory is yielded, its
\* subdirectories are listed (in whatever order the platform gives), .rockbox
\* is removed from them, and the folder's cover.jpg is looked at.
WalkNext ==
    /\ pc = "walk"
    /\ pending # <<>>
    /\ LET f == Head(pending) IN
       /\ \E dirs \in Listings(Children(f), Cardinality(Children(f))) :
             /\ Len(dirs) = Cardinality(Children(f))
             /\ pending' = Prune(dirs) \o Tail(pending)
       /\ root' = f
       /\ IF f \in processed_folders
          THEN /\ pc' = "walk"
               /\ UNCHANGED visits
          ELSE /\ visits' = [visits EXCEPT ![f] = @ + 1]
               /\ pc' = IF cover[f].kind \notin {"absent", "empty"}
                        THEN "fix_cover" ELSE "listdir"
    /\ UNCHANGED <<outcome, processed_folders, folders_processed, disk,
                   locals, cleared, cover0, fs_errors>>

\* The walk is exhausted: the summary is printed and process_images returns.
WalkEnd ==
    /\ pc = "walk"
    /\ pending = <<>>
    /\ outcome' = "finished"
    /\ pc' = "cleanup"
    /\ UNCHANGED <<walker, disk, locals, cleared, cover0, visits, fs_errors>>

\* process_cover_image(cover_path) on a cover.jpg that exists with size > 0.
FixCover ==
    /\ pc = "fix_cover"
    /\ \E r \in DecodeOutcomes(cover[root]) :
          /\ cover' = [cover EXCEPT ![root] = process_cover_image(@, r)]
          /\ IF Raises(r)
             THEN Propagate("image_error")
             ELSE pc' = "count" /\ UNCHANGED <<outcome, locals>>
    /\ UNCHANGED <<walker, staging_exists, staged, cleared, cover0, visits,
                   fs_errors>>

\* Mutant of CountFolder: a folder is counted only when it has a cover.
CountFolderIfCover ==
    /\ pc = "count"
    /\ folders_processed' = IF cover[root].kind = "absent" THEN folders_processed
                            ELSE folders_processed + 1
    /\ processed_folders' = processed_folders \cup {root}
    /\ pc' = "walk"
    /\ DropLocals
    /\ UNCHANGED <<outcome, pending, root, disk, cleared, cover0, visits,
                   fs_errors>>

\* folders_processed += 1; processed_folders.add(root)
CountFolder ==
    /\ pc = "count"
    /\ folders_processed' = folders_processed + 1
    /\ processed_folders' = processed_folders \cup {root}
    /\ pc' = "walk"
    /\ DropLocals
    /\ UNCHANGED <<outcome, pending, root, disk, cleared, cover0, visits,
                   fs_errors>>

\* ----------------------------------------------------- handle_audio_files
\* audio_files = [... for f in os.listdir(directory) if f.endswith(...)]
ListDir ==
    /\ pc = "listdir"
    /\ \E l \in Listings(FileNames, MaxFiles) :
          /\ listing' = l
          /\ audio_files' = AudioFiles(l)
    /\ idx' = 1
    /\ pc' = "extract"
    /\ UNCHANGED <<outcome, walker, disk, mime_type, temp_art_path, attempts,
                   log, cleared, cover0, visits, fs_errors>>

\* The for loop ran out of audio files: handle_audio_files returns.
LoopEnd ==
    /\ pc = "extract"
    /\ idx > Len(audio_files)
    /\ pc' = "count"
    /\ UNCHANGED <<outcome, walker, disk, locals, cleared, cover0, visits,
                   fs_errors>>

\* extract_art_mutagen returns None: the loop goes on to the next audio file.
ReturnNone ==
    /\ attempts' = Append(attempts, [file |-> audio_files[idx], result |-> "none"])
    /\ idx' = idx + 1
    /\ mime_type' = ""
    /\ temp_art_path' = NoPath
    /\ pc' = "extract"
    /\ UNCHANGED <<outcome, walker, listing, audio_files, cleared, cover0,
                   visits>>

\* extract_art_mutagen returns temp_art_path: cover_path is truthy.
ReturnPath ==
    /\ attempts' = Append(attempts, [file |-> audio_files[idx], result |-> "path"])
    /\ pc' = "move"
    /\ UNCHANGED <<outcome, walker, listing, audio_files, idx, mime_type,
                   temp_art_path, cleared, cover0, visits>>

\* ---------------------------------------------------- extract_art_mutagen
\* The tags of audio_files[idx] are read: mutagen cannot load the file, or
\* the file holds no picture, or reading raises, or the first picture is
\* selected with its mime type.
ExtractDecode ==
    /\ pc = "extract"
    /\ idx <= Len(audio_files)
    /\ \/ /\ ReturnNone                       \* file_obj is None
          /\ UNCHANGED <<disk, log, fs_errors>>
       \/ /\ ReturnNone                       \* not pictures_data
          /\ UNCHANGED <<disk, log, fs_errors>>
       \/ /\ ReturnNone                       \* except Exception
          /\ UNCHANGED <<disk, log, fs_errors>>
       \/ /\ \E m \in Mimes : mime_type' = m
          /\ pc' = "mkdir"
          /\ UNCHANGED <<outcome, walker, disk, listing, audio_files, idx,
                         temp_art_path, attempts, log, cleared, cover0, visits,
                         fs_errors>>

\* os.makedirs(temp_extraction_dir, exist_ok=True); an OSError is caught by
\* the function's except Exception.
ExtractMkdir ==
    /\ pc = "mkdir"
    /\ \/ /\ staging_exists' = TRUE
          /\ pc' = "write"
          /\ UNCHANGED <<outcome, walker, cover, staged, locals, cleared,
                         cover0, visits, fs_errors>>
       \/ /\ ~staging_exists
          /\ fs_errors' = fs_errors \cup {"mkdir"}
          /\ ReturnNone
          /\ UNCHANGED <<disk, log>>

\* temp_art_path is derived from the audio file's base name and the mime's
\* extension; open(temp_art_path, "wb") truncates what is there and the
\* picture bytes are written.
StagedName == <<Stem(audio_files[idx]), MimeExt(mime_type)>>
Picture == [kind |-> "raw", dir |-> root, file |-> audio_files[idx]]
\* Mutant of Stage: a file already staged under the name is kept.
StageKeepExisting(files, name, pic) == files @@ (name :> pic)
Stage(files, name, pic) == (name :> pic) @@ files

\* Mutant of ExtractWrite: the staged path is returned without the call of
\* process_cover_image.
ExtractWriteSkipNormalize ==
    /\ pc = "write"
    /\ \/ /\ staged' = Stage(staged, StagedName, Picture)
          /\ temp_art_path' = StagedName
          /\ log' = Append(log, <<"stage", audio_files[idx], StagedName>>)
          /\ attempts' = Append(attempts, [file |-> audio_files[idx],
                                           result |-> "path"])
          /\ pc' = "move"
          /\ UNCHANGED <<outcome, walker, cover, staging_exists, listing,
                         audio_files, idx, mime_type, cleared, cover0, visits,
                         fs_errors>>
       \/ /\ fs_errors' = fs_errors \cup {"write"}
          /\ ReturnNone
          /\ UNCHANGED <<disk, log>>

ExtractWrite ==
    /\ pc = "write"
    /\ \/ /\ staged' = Stage(staged, StagedName, Picture)
          /\ temp_art_path' = StagedName
          /\ log' = Append(log, <<"stage", audio_files[idx], StagedName>>)
          /\ pc' = "normalize"
          /\ UNCHANGED <<outcome, walker, cover, staging_exists, listing,
                         audio_files, idx, mime_type, attempts, cleared, cover0,
                         visits, fs_errors>>
       \/ /\ fs_errors' = fs_errors \cup {"write"}      \* open raises
          /\ ReturnNone
          /\ UNCHANGED <<disk, log>>
       \/ /\ staged' = Stage(staged, StagedName, Picture)   \* write raises
          /\ fs_errors' = fs_errors \cup {"write"}
          /\ ReturnNone
          /\ UNCHANGED <<cover, staging_exists, log>>

\* process_cover_image(temp_art_path); return temp_art_path.  An exception
\* other than UnidentifiedImageError reaches the function's except Exception.
ExtractNormalize ==
    /\ pc = "normalize"
    /\ log' = Append(log, <<"normalize", audio_files[idx], temp_art_path>>)
    /\ \E r \in DecodeOutcomes(staged[temp_art_path]) :
          /\ staged' = [staged EXCEPT ![temp_art_path] = process_cover_image(@, r)]
          /\ IF Raises(r) THEN ReturnNone ELSE ReturnPath
    /\ UNCHANGED <<cover, staging_exists, fs_errors>>

\* Mutant of MoveCover: the return after the move is missing, the loop goes on.
MoveCoverNoReturn ==
    /\ pc = "move"
    /\ \/ /\ cover' = [cover EXCEPT ![root] = staged[temp_art_path]]
          /\ staged' = IF DOMAIN staged = {temp_art_path} THEN <<>>
                       ELSE Restrict(staged, DOMAIN staged \ {temp_art_path})
          /\ log' = Append(log, <<"move", audio_files[idx], temp_art_path>>)
          /\ idx' = idx + 1
          /\ mime_type' = ""
          /\ temp_art_path' = NoPath
          /\ pc' = "extract"
          /\ UNCHANGED <<outcome, fs_errors, listing, audio_files, attempts>>
       \/ /\ fs_errors' = fs_errors \cup {"move"}
          /\ Propagate("move_error")
          /\ UNCHANGED <<cover, staged>>
    /\ UNCHANGED <<walker, staging_exists, cleared, cover0, visits>>

\* shutil.move(cover_path, final_cover_dest); return.  An OSError is caught
\* nowhere below main.
MoveCover ==
    /\ pc = "move"
    /\ \/ /\ cover' = [cover EXCEPT ![root] = staged[temp_art_path]]
          /\ staged' = IF DOMAIN staged = {temp_art_path} THEN <<>>
                       ELSE Restrict(staged, DOMAIN staged \ {temp_art_path})
          /\ log' = Append(log, <<"move", audio_files[idx], temp_art_path>>)
          /\ pc' = "count"
          /\ UNCHANGED <<outcome, fs_errors, listing, audio_files, idx,
                         mime_type, temp_art_path, attempts>>
       \/ /\ fs_errors' = fs_errors \cup {"move"}
          /\ Propagate("move_error")
          /\ UNCHANGED <<cover, staged>>
    /\ UNCHANGED <<walker, staging_exists, cleared, cover0, visits>>

\* -------------------------------------------------------------------- main
WalkPcs == {"walk", "fix_cover", "listdir", "extract", "mkdir", "write",
            "normalize", "move", "count"}

\* except KeyboardInterrupt: the user interrupts process_images anywhere.
KeyboardInterrupt ==
    /\ pc \in WalkPcs
    /\ Propagate("interrupted")
    /\ UNCHANGED <<walker, disk, cleared, cover0, visits, fs_errors>>

\* Mutant of clear_temp_directory: it looks for a directory of another name
\* (TEMP_FOLDER_NAME without "_extract"), which does not exist.
clear_other_directory ==
    /\ pc = "cleanup"
    /\ cleared' = "absent"
    /\ pc' = "done"
    /\ UNCHANGED <<outcome, walker, disk, locals, cover0, visits, fs_errors>>

\* finally: clear_temp_directory().  rmtree removes the directory, or raises
\* an OSError that is printed.
clear_temp_directory ==
    /\ pc = "cleanup"
    /\ \/ /\ ~staging_exists
          /\ cleared' = "absent"
          /\ UNCHANGED <<staging_exists, staged>>
       \/ /\ staging_exists
          /\ staging_exists' = FALSE
          /\ staged' = <<>>
          /\ cleared' = "removed"
       \/ /\ staging_exists
          /\ cleared' = "failed"
          /\ UNCHANGED <<staging_exists, staged>>
    /\ pc' = "done"
    /\ UNCHANGED <<outcome, walker, cover, locals, cover0, visits, fs_errors>>

Next ==
    \/ WalkNext
    \/ WalkEnd
    \/ FixCover
    \/ CountFolder
    \/ ListDir
    \/ LoopEnd
    \/ ExtractDecode
    \/ ExtractMkdir
    \/ ExtractWrite
    \/ ExtractNormalize
    \/ MoveCover
    \/ KeyboardInterrupt
    \/ clear_temp_directory

Spec == Init /\ [][Next]_vars

\* ------------------------------------------------------------- properties
Last(q) == q[Len(q)]
Elems(q) == {q[i] : i \in 1..Len(q)}
\* position of x in the sequence q (0 when it is not there)
Pos(q, x) == IF x \in Elems(q) THEN CHOOSE i \in 1..Len(q) : q[i] = x ELSE 0
\* the folder of this visit got its cover.jpg from handle_audio_files
ViaExtraction == cover0[root].kind \in {"absent", "empty"}

\* C1 (as claimed): when main has completed, however process_images ended,
\* the staging directory does not exist.
C1_StagingGoneAfterRun == pc = "done" => ~staging_exists

\* C1 (amended): when main has completed, however process_images ended,
\* clear_temp_directory has run, and the staging directory does not exist
\* unless its removal raised the OSError that clear_temp_directory reports.
C1_StagingGoneUnlessRemovalFailed ==
    pc = "done" =>
        /\ cleared \in {"absent", "removed", "failed"}
        /\ cleared # "failed" => ~staging_exists /\ DOMAIN staged = {}

\* C1 witness: an interrupted walk whose staging directory was removed.
C1_Witness ==
    /\ pc = "done"
    /\ outcome = "interrupted"
    /\ cleared = "removed"
    /\ ~staging_exists

\* C2: a processed folder's cover.jpg, when there is one, is a normalized
\* image (300x300 RGB JPEG of non-zero size).
C2_ProcessedCoverNormalized ==
    \A f \in processed_folders : cover[f].kind # "absent" => cover[f].kind = "norm"

\* C3: after a filesystem error in makedirs or in shutil.move the walk goes
\* on: when the run is over (and nothing else ended the walk) every folder
\* outside the reserved areas has been visited.
C3_WalkContinuesAfterFsError ==
    (/\ pc = "done"
     /\ outcome \notin {"interrupted", "image_error"}
     /\ fs_errors \cap {"mkdir", "move"} # {})
    => \A f \in Walkable : visits[f] >= 1

\* A step of process_cover_image that could not decode the file it was given
NormalizerFailsOnCover ==
    pc = "fix_cover" /\ outcome' # "interrupted" /\ cover'[root].kind # "norm"
NormalizerFailsOnStaged ==
    /\ pc = "normalize"
    /\ outcome' # "interrupted"
    /\ staged'[temp_art_path].kind # "norm"

\* C4: when process_cover_image cannot decode the image, the file is left as
\* it was, the walk is not stopped and the folder goes on to be counted.
C4_DecodeFailureIsLocal ==
    [][/\ NormalizerFailsOnCover =>
            cover' = cover /\ outcome' = "running" /\ pc' = "count"
       /\ NormalizerFailsOnStaged =>
            staged' = staged /\ outcome' = "running" /\ pc' \in {"move", "extract"}
      ]_vars

\* C5: a folder named .rockbox or inside one, at any depth below the root,
\* is never visited or counted, and its cover.jpg is never created or
\* rewritten.
C5_ReservedNeverVisited ==
    /\ \A f \in Folders : UnderReserved(f) =>
          /\ visits[f] = 0
          /\ root # f
          /\ f \notin processed_folders
          /\ f \notin Elems(pending)
          /\ cover[f] = cover0[f]
    /\ folders_processed <= Cardinality(Walkable)

\* C5 witness: a finished walk of a tree that has a reserved directory
\* directly under the root, one deeper, and a folder inside one.
C5_Witness ==
    /\ pc = "done"
    /\ outcome = "finished"
    /\ folders_processed = Cardinality(Walkable)
    /\ \E f \in Folders : DirName(f) = RESERVED_DIR /\ Parent(f) = 1
    /\ \E f \in Folders : DirName(f) = RESERVED_DIR /\ Parent(f) # 1
    /\ \E f \in Folders : UnderReserved(f) /\ DirName(f) # RESERVED_DIR
                          /\ cover[f].kind = "raw"

C7_EveryFolderCountedOnce ==
    /\ \A f \in Folders : visits[f] <= 1
    /\ folders_processed = Cardinality(processed_folders)
    /\ (pc \in {"cleanup", "done"} /\ outcome = "finished") =>
          /\ processed_folders = Walkable
          /\ folders_processed = Cardinality(Walkable)
    /\ (pc = "count" /\ cover0[root].kind = "absent" /\ AudioFiles(listing) = <<>>
        /\ attempts = <<>>) =>
          cover[root] = NoFile

\* C7 witness: the last folder of the walk has no cover and a listing with
\* no audio file, and is about to be counted.
C7_Witness ==
    /\ pc = "count"
    /\ cover0[root].kind = "absent"
    /\ listing # <<>>
    /\ audio_files = <<>>
    /\ pending = <<>>
    /\ processed_folders = Walkable \ {root}

\* C8: a move is the last event of its folder and directly follows the
\* normalization of the same staged file, which directly follows its
\* staging; each of the three happens once for that picture; and a move is
\* never pending before the normalizer ran on the staged file.
C8_StageNormalizeMove ==
    /\ \A i \in 1..Len(log) :
          /\ log[i][1] = "move" =>
                /\ i = Len(log)
                /\ i >= 3
                /\ log[i - 1] = <<"normalize", log[i][2], log[i][3]>>
                /\ log[i - 2] = <<"stage", log[i][2], log[i][3]>>
                /\ Cardinality({j \in 1..Len(log) : log[j][2] = log[i][2]}) = 3
          /\ log[i][1] = "normalize" =>
                i >= 2 /\ log[i - 1] = <<"stage", log[i][2], log[i][3]>>
    /\ pc = "move" =>
          log # <<>> /\ Last(log) = <<"normalize", audio_files[idx], temp_art_path>>
    /\ (pc = "count" /\ ViaExtraction /\ cover[root] # cover0[root]) =>
          log # <<>> /\ Last(log)[1] = "move"

\* C8 witness: a folder whose cover was staged, normalized and moved.
C8_Witness ==
    /\ pc = "count"
    /\ Len(log) >= 3
    /\ Last(log)[1] = "move"
    /\ cover[root].file = Last(log)[2]
    /\ cover[root].kind = "norm"

\* C9: whenever a picture is about to be written to the staging directory,
\* the directory holds no file of an earlier stage call of this run.
C9_StagingEmptyBeforeStage == pc = "write" => DOMAIN staged = {}

\* C10: the staged file about to be moved to cover.jpg of the folder, and
\* every cover.jpg a folder has, holds the picture of an audio file listed in
\* that folder and tried in this visit (or the cover the run found there).
C10_MovedCoverIsFresh ==
    /\ pc = "move" =>
          /\ temp_art_path \in DOMAIN staged
          /\ staged[temp_art_path].dir = root
          /\ staged[temp_art_path].file = audio_files[idx]
          /\ audio_files[idx] \in Elems(listing)
          /\ Last(attempts).file = audio_files[idx]
    /\ \A f \in Folders :
          cover[f].kind # "absent" =>
             /\ cover[f].dir = f
             /\ cover[f].file # COVER_FILENAME => visits[f] = 1
    /\ (pc = "count" /\ log # <<>> /\ Last(log)[1] = "move") =>
          /\ cover[root].dir = root
          /\ cover[root].file = Last(log)[2]
          /\ cover[root].file \in Elems(listing)

\* C10 witness: the picture about to be moved was staged under a name that
\* an earlier audio file's picture, left behind, had used.
C10_Witness ==
    /\ pc = "move"
    /\ \E i \in 1..Len(log) :
          /\ log[i][1] = "stage"
          /\ log[i][3] = temp_art_path
          /\ log[i][2] # audio_files[idx]

=============================================================================
